---------------------------- MODULE Spec2Model ----------------------------
(* One call of deerlab.fitmultimodel (src/deerlab/fitmultimodel.py) as a   *)
(* state machine.  pc is the position of the call in the function body;    *)
(* every argument of the call is bound at the point where the body first   *)
(* reads it.  Real numbers are fixed-point: the integer x stands for the   *)
(* real x/scale, so 1.0 is One == scale and 1.5 is 150.  External          *)
(* collaborators (snlls, the basis model, jacobianest, hccm, UncertQuant)  *)
(* are nondeterministic choices over the outcomes their contract allows.   *)
EXTENDS Integers, Sequences, FiniteSets, TLC

(***************************************************************************)
(* Bounds of the model                                                     *)
(***************************************************************************)
MaxModels == 2      \* largest maxModels argument explored
MaxArity  == 2      \* largest parameter-vector length a kernel may accept
MaxProbe  == 22     \* the probing loop is followed up to this vector length

(***************************************************************************)
(* Program constants                                                       *)
(***************************************************************************)
scale == 100                 \* line 272; also the fixed-point denominator
One   == scale               \* the real number 1.0
inf   == 1000000             \* np.inf (line 269): above every finite value
seed  == 1                   \* np.random.seed(1), line 264
weights == 1                 \* default of the weights argument, line 13

(***************************************************************************)
(* Sequence helpers                                                        *)
(***************************************************************************)
Range(s) == {s[i] : i \in DOMAIN s}

RECURSIVE SumSeq(_)
SumSeq(s) == IF s = <<>> THEN 0 ELSE Head(s) + SumSeq(Tail(s))

\* builtin min / max over a non-empty sequence
min(s) == CHOOSE x \in Range(s) : \A y \in Range(s) : x <= y
max(s) == CHOOSE x \in Range(s) : \A y \in Range(s) : x >= y

\* s[a:b] of Python: positions a+1 .. b (0-based half-open slice)
Slice(s, a, b) == [i \in 1..(IF b > a THEN b - a ELSE 0) |-> s[a + i]]

\* np.ones(n), np.full(n, x)
full(n, x) == [i \in 1..n |-> x]
ones(n) == full(n, One)

\* np.matlib.repmat(v,1,n) flattened by np.concatenate(...,axis=None)
RECURSIVE repmat(_, _)
repmat(v, n) == IF n = 0 THEN <<>> ELSE v \o repmat(v, n - 1)

(***************************************************************************)
(* numpy arrays carry a dtype: an array built from integers only is an     *)
(* integer array, and storing a float into it truncates toward zero.       *)
(***************************************************************************)
Trunc(x) == (x \div One) * One          \* values are non-negative here

\* np.atleast_1d of a list / array: dtype is inferred from the entries
atleast_1d(vals, dtype) == [v |-> vals, dtype |-> dtype]

\* arr[mask] = x : boolean-mask assignment, cast to the array's dtype
SetMasked(arr, mask, x) ==
    [v |-> [i \in DOMAIN arr.v |->
              IF mask[i] THEN (IF arr.dtype = "int" THEN Trunc(x) ELSE x)
                         ELSE arr.v[i]],
     dtype |-> arr.dtype]

\* deerlab.utils.isempty
isempty(arr) == Len(arr.v) = 0

(***************************************************************************)
(* Inputs of the call                                                      *)
(***************************************************************************)
\* Kernel models: a fixed matrix, or a function that succeeds exactly on
\* the parameter-vector lengths in "accepts" (and raises on the others).
\* A function accepts no length, one length, or every length up to MaxArity.
Kernels == {[callable |-> FALSE, accepts |-> {}]}
           \cup {[callable |-> TRUE, accepts |-> A] :
                   A \in {{}, 1..MaxArity} \cup {{n} : n \in 1..MaxArity}}

\* Kernel bound vectors lbK / ubK: any length 0..MaxArity
KLower(n) == [i \in 1..n |-> 0]
KUpper(n) == [i \in 1..n |-> i * One]

\* Basis models: the metadata returned by model()
Models ==
  { [Parameters |-> <<"Center", "FWHM">>,
     Start |-> <<350, 50>>,
     Lower |-> atleast_1d(<<100, 20>>, "float"),
     Upper |-> atleast_1d(<<2000, 500>>, "float")],
    [Parameters |-> <<"Radius">>,
     Start |-> <<250>>,
     Lower |-> atleast_1d(<<10>>, "float"),
     Upper |-> atleast_1d(<<2000>>, "float")] }

\* Distance axes r
Axes == { <<150, 400, 650>> }

\* User-supplied shape bounds lb / ub for a model with n parameters, as the
\* objects the caller owns: the default [], a Python list or a numpy array,
\* of integers or of floats
Object(kind, vals, dtype) == [kind |-> kind, v |-> vals, dtype |-> dtype]
UserLower(n) == { Object("list", <<>>, "float"),
                  Object("list", [i \in 1..n |-> One], "int"),
                  Object("ndarray", [i \in 1..n |-> 50], "float") }
UserUpper(n) == { Object("list", <<>>, "float"),
                  Object("ndarray", [i \in 1..n |-> 9 * One], "int"),
                  Object("list", [i \in 1..n |-> 950], "float") }

\* np.atleast_1d returns an array argument itself, and a new array for a
\* list: writes into the result reach the caller's object only if it is an
\* array
SharesMemory(obj) == obj.kind = "ndarray"

Methods == {"aic", "aicc", "bic", "rmsd"}

\* len(V): lengths of the (concatenated) signal
SignalLengths == {5, 16}


(***************************************************************************)
(* The process-wide numpy generator.  Its state is a counter: seeding sets *)
(* it from the seed, a draw of n numbers advances it by n.                 *)
(***************************************************************************)
RngPeriod == 3      \* the generator state is followed modulo this bound
RngStates == 0..(RngPeriod - 1)
\* states the generator is in when fitmultimodel is called
RngEntry == {0, RngPeriod - 1}

\* np.random.seed(s)
Seeded(s) == s % RngPeriod
\* generator state after drawing n numbers
Advance(g, n) == (g + n) % RngPeriod
\* the i-th number in [0,1) drawn from state g, as a fraction of scale
Unit(g, i) == (((g + i) % RngPeriod) * 37) % scale
\* (mutation of StartState: the generator is not re-seeded)
StartStateUnseeded(g) == g

\* line 264: the generator state the start vector is drawn from, when the
\* generator was in state g
StartState(g) == Seeded(seed)

\* np.random.normal(0, std, N) drawn from state g (in units of std)
normal(g, N) == [i \in 1..N |-> ((Unit(g, i) * 61) % scale) - (scale \div 2)]

\* whitegaussnoise(t, std, seed=sd) called with the generator in state g
\* (src/deerlab/whitegaussnoise.py, lines 35-41); sd = -1 stands for None
whitegaussnoise(g, N, sd) == normal(IF sd # -1 THEN Seeded(sd) ELSE g, N)

\* np.random.uniform(size=len(low), low=low, high=high) drawn from state g
uniform(g, low, high) ==
    [i \in DOMAIN low |-> low[i] + (Unit(g, i) * (high[i] - low[i])) \div scale]

(***************************************************************************)
(* Mathematical functions on the values the model uses                     *)
(***************************************************************************)
\* natural logarithm of the integers 1..17, in units of 1/scale
LnTable == <<0, 69, 110, 139, 161, 179, 195, 208, 220, 230, 240, 248, 256,
             264, 271, 277, 283>>
log(n) == LnTable[n]
\* square root of a perfect square, in units of 1/scale
sqrt(n) == One * (CHOOSE k \in 0..n : k * k = n)
\* a / b of Python for integers a, b (b # 0), rounded down to 1/scale
TrueDiv(a, b) == IF b > 0 THEN (a * One) \div b ELSE -((a * One) \div (-b))

(***************************************************************************)
(* State                                                                   *)
(***************************************************************************)
VARIABLES
    pc,          \* position in the body of fitmultimodel
    err,         \* the exception that ended the call, "" if none
    rng,         \* state of the process-wide random generator
    rng0,        \* its state when fitmultimodel was called
    calls,       \* the external calls made so far, in order
    Kmodel,      \* argument: the kernel model
    nKparam,     \* detected number of kernel parameters
    lbK, ubK,    \* arguments: kernel parameter bounds
    info,        \* model(): metadata of the basis model
    nparam,      \* len(info['Start'])
    lb, ub,      \* arguments after np.atleast_1d (line 125), as received
    lbObj, ubObj,\* the objects the caller passed as lb and ub, as they are now
    metaObj,     \* Lower and Upper of the dictionary model() returned, now
    r,           \* argument: distance axis
    lb0, ub0,    \* resolved shape-parameter bounds
    maxModels,   \* argument
    lenV,        \* len(V)
    Nmodels,     \* loop variable
    pnonlin_, plin_, nlin_lb_, nlin_ub_, lin_lb_, lin_ub_,
    Pfit_,       \* the list Pfit filled by the loop (Peval after line 301)
    logest,      \* the dictionary of the four criteria
    method,      \* argument
    idx,         \* np.argmin(fcnals), 0-based
    Pfit,        \* the selected (and possibly normalized) distribution
    fitparam,    \* the packed parameters
    uqanalysis,  \* argument
    Puq, paramuq,
    ci,          \* what the attribute ci of the objects Puq and Puq_ is bound to
    stats,
    normP,       \* argument
    result       \* TRUE once the tuple of line 362 has been returned

inputVars  == <<rng0, Kmodel, lbK, ubK, info, lb, ub, r, maxModels, lenV, method,
                uqanalysis, normP>>
boundVars  == <<nKparam, nparam, lb0, ub0>>
loopVars   == <<Nmodels, pnonlin_, plin_, nlin_lb_, nlin_ub_, lin_lb_,
                lin_ub_, Pfit_, logest>>
selVars    == <<idx, Pfit, fitparam>>
uqVars     == <<Puq, paramuq, ci>>
aliasVars  == <<lbObj, ubObj, metaObj>>
vars == <<pc, err, rng, calls, inputVars, boundVars, loopVars, selVars,
          uqVars, stats, result, aliasVars>>

NoArray == atleast_1d(<<>>, "float")
NoInfo  == [Parameters |-> <<>>, Start |-> <<>>, Lower |-> NoArray,
            Upper |-> NoArray]
NoUq    == [kind |-> "unset", N |-> 0, ciDiv |-> 0]
\* bindings of a ci attribute: none, the method UncertQuant defines, or the
\* function of line 360 that calls target.ci(p) and divides by div
NoCi     == [kind |-> "none", target |-> "", div |-> 0]
CiMethod == [kind |-> "method", target |-> "", div |-> 0]
NoStats == [Ndof |-> 0, computed |-> FALSE]

Init ==
    /\ pc = "start" /\ err = "" /\ calls = <<>>
    /\ rng \in RngEntry /\ rng0 = rng
    /\ Kmodel \in Kernels
    /\ nKparam = 0 /\ lbK = <<>> /\ ubK = <<>>
    /\ info = NoInfo /\ nparam = 0
    /\ lb = NoArray /\ ub = NoArray /\ r = <<>>
    /\ lbObj = Object("list", <<>>, "float")
    /\ ubObj = Object("list", <<>>, "float")
    /\ metaObj = [Lower |-> NoArray, Upper |-> NoArray]
    /\ lb0 = NoArray /\ ub0 = NoArray
    /\ maxModels = 0 /\ lenV = 0 /\ Nmodels = 0
    /\ pnonlin_ = <<>> /\ plin_ = <<>>
    /\ nlin_lb_ = <<>> /\ nlin_ub_ = <<>> /\ lin_lb_ = <<>> /\ lin_ub_ = <<>>
    /\ Pfit_ = <<>>
    /\ logest = [rmsd |-> <<>>, aic |-> <<>>, aicc |-> <<>>, bic |-> <<>>]
    /\ method = "" /\ idx = 0 /\ Pfit = <<>> /\ fitparam = << <<>>, <<>>, <<>> >>
    /\ uqanalysis = FALSE /\ Puq = NoUq /\ paramuq = NoUq
    /\ ci = [Puq |-> NoCi, Puq_ |-> NoCi]
    /\ stats = NoStats /\ normP = FALSE /\ result = FALSE

(***************************************************************************)
(* Kernel parameter arity detection, lines 130-146                         *)
(***************************************************************************)
\* line 131 true: nKparam = 0, notEnoughParam = True
StartProbe ==
    /\ pc = "start" /\ Kmodel.callable
    /\ nKparam' = 0
    /\ pc' = "probe"
    /\ UNCHANGED <<err, rng, calls, inputVars, nparam, lb0, ub0, loopVars,
                   selVars, uqVars, stats, result, aliasVars>>

\* one iteration of the while loop of lines 135-141 (pc = "probe" is
\* notEnoughParam = True): the kernel is called with nKparam+1 random
\* numbers; any exception is swallowed and the loop goes on
ProbeKernel ==
    /\ pc = "probe" /\ nKparam < MaxProbe
    /\ nKparam' = nKparam + 1
    /\ rng' = Advance(rng, nKparam + 1)
    /\ pc' = IF (nKparam + 1) \in Kmodel.accepts THEN "parse" ELSE "probe"
    /\ UNCHANGED <<err, calls, inputVars, nparam, lb0, ub0, loopVars,
                   selVars, uqVars, stats, result, aliasVars>>

\* lines 142-146: a matrix kernel has no parameters
FixedKernel ==
    /\ pc = "start" /\ ~Kmodel.callable
    /\ nKparam' = 0
    /\ pc' = "parse"
    /\ UNCHANGED <<err, rng, calls, inputVars, nparam, lb0, ub0, loopVars,
                   selVars, uqVars, stats, result, aliasVars>>

(***************************************************************************)
(* Kernel bounds check, lines 149-151                                      *)
(***************************************************************************)
\* (mutation of KernelBoundsMismatch: "and" in place of "or")
KernelBoundsMismatchBoth(l, u, n) == Len(l) # n /\ Len(u) # n

\* line 150
KernelBoundsMismatch(l, u, n) == Len(l) # n \/ Len(u) # n

ParseBoundaries ==
    /\ pc = "parse"
    /\ \E nl \in 0..MaxArity, nu \in 0..MaxArity :
          /\ lbK' = KLower(nl)
          /\ ubK' = KUpper(nu)
          /\ IF KernelBoundsMismatch(KLower(nl), KUpper(nu), nKparam)
                THEN pc' = "error" /\ err' = "ValueError"
                ELSE pc' = "info" /\ err' = err
    /\ UNCHANGED <<rng, calls, rng0, Kmodel, info, lb, ub, r, maxModels, lenV,
                   method, uqanalysis, normP, boundVars, loopVars, selVars,
                   uqVars, stats, result, aliasVars>>

(***************************************************************************)
(* Shape-parameter bounds, lines 125 and 153-170                           *)
(***************************************************************************)
areCenterDistances(paramnames) ==
    [i \in DOMAIN paramnames |-> paramnames[i] \in {"Center", "Location"}]

\* lines 156-167 for one side: the user's array unless it is empty, then
\* the entries of the centre parameters overwritten with x
ResolveBound(user, default, paramnames, x) ==
    LET b0   == IF isempty(user) THEN default ELSE user
        mask == areCenterDistances(paramnames)
    IN  IF \E i \in DOMAIN mask : mask[i] THEN SetMasked(b0, mask, x) ELSE b0

ResolveBounds ==
    /\ pc = "info"
    /\ \E m \in Models, ax \in Axes :
         \E l \in UserLower(Len(m.Start)), u \in UserUpper(Len(m.Start)) :
          /\ info' = m /\ r' = ax
          /\ lb' = atleast_1d(l.v, l.dtype) /\ ub' = atleast_1d(u.v, u.dtype)
          /\ nparam' = Len(m.Start)
          /\ ub0' = ResolveBound(atleast_1d(u.v, u.dtype), m.Upper,
                                 m.Parameters, max(ax))
          /\ lb0' = ResolveBound(atleast_1d(l.v, l.dtype), m.Lower,
                                 m.Parameters, min(ax))
          \* lb0 / ub0 are the user's array or the array of the metadata
          \* itself: lines 166-167 write into that object
          /\ lbObj' = IF SharesMemory(l) /\ l.v # <<>>
                         THEN [l EXCEPT !.v = lb0'.v] ELSE l
          /\ ubObj' = IF SharesMemory(u) /\ u.v # <<>>
                         THEN [u EXCEPT !.v = ub0'.v] ELSE u
          /\ metaObj' = [Lower |-> IF l.v = <<>> THEN lb0' ELSE m.Lower,
                         Upper |-> IF u.v = <<>> THEN ub0' ELSE m.Upper]
    /\ pc' = "alloc"
    /\ UNCHANGED <<err, rng, calls, rng0, Kmodel, lbK, ubK, maxModels, lenV, method,
                   uqanalysis, normP, nKparam, loopVars, selVars, uqVars,
                   stats, result>>

(***************************************************************************)
(* Pre-allocation, lines 243-245; V and maxModels are read from here on    *)
(***************************************************************************)
PreAllocate ==
    /\ pc = "alloc"
    /\ maxModels' \in 1..MaxModels
    /\ lenV' \in SignalLengths
    /\ Nmodels' = 1
    /\ pc' = "fit"
    /\ UNCHANGED <<err, rng, calls, rng0, Kmodel, lbK, ubK, info, lb, ub, r, method,
                   uqanalysis, normP, boundVars, pnonlin_, plin_, nlin_lb_,
                   nlin_ub_, lin_lb_, lin_ub_, Pfit_, logest, selVars, uqVars,
                   stats, result, aliasVars>>

(***************************************************************************)
(* Helpers of the candidate loop                                           *)
(***************************************************************************)
\* (mutation of NonlinBounds: the kernel bounds are not prepended)
NonlinBoundsNoKernel(kb, b0, N) == repmat(b0, N)

\* lines 256-261: kernel bounds, then the shape bounds replicated N times
NonlinBounds(kb, b0, N) == kb \o repmat(b0, N)

\* lines 268-269
LinLower(N) == ones(N)
LinUpper(N) == full(N, inf)

\* The basis model model(r,par): some non-negative vector over the axis
model(ax, par) == [i \in DOMAIN ax |-> 1 + (((ax[i] + SumSeq(par)) \div 50) % 3)]

\* lines 195-211: the multi-component distribution
RECURSIVE PmodelFrom(_, _, _, _, _, _)
PmodelFrom(k, nlinpar, linpar, nK, np, ax) ==
    IF k > Len(linpar) THEN [i \in DOMAIN ax |-> 0]
    ELSE LET basis == model(ax, Slice(nlinpar, nK + (k - 1) * np, nK + k * np))
             rest  == PmodelFrom(k + 1, nlinpar, linpar, nK, np, ax)
         IN  [i \in DOMAIN ax |-> linpar[k] * basis[i] + rest[i]]
Pmodel(nlinpar, linpar, nK, np, ax) == PmodelFrom(1, nlinpar, linpar, nK, np, ax)

\* What snlls may return: non-linear parameters inside [nlin_lb, nlin_ub],
\* linear parameters inside [lin_lb, lin_ub], and a fitted signal whose mean
\* squared residual S/N is msr.
SolverAmplitudes == {One \div 2, One, scale * One}
SolverResiduals  == {1, 4}
snlls(par0, nlin_lb, nlin_ub, lin_lb, lin_ub) ==
    { [pnonlin |-> IF a = One THEN nlin_lb ELSE par0,
       plin    |-> [i \in DOMAIN lin_lb |-> a],
       msr     |-> m] :
      a \in {x \in SolverAmplitudes :
               \A i \in DOMAIN lin_lb : lin_lb[i] <= x /\ x <= lin_ub[i]},
      m \in SolverResiduals }

\* lines 224-226
NumQ(plin, pnonlin) == Len(pnonlin) + Len(plin) + 1

\* lines 214-240.  N = len(V); msr = SquaredSumRes/N.  The quotient of line
\* 232 is a quotient of Python integers: it raises when N-Q-1 = 0.
AiccRaises(N, plin, pnonlin) == N - NumQ(plin, pnonlin) - 1 = 0

logestimators(N, msr, plin, pnonlin, functionals) ==
    LET Q       == NumQ(plin, pnonlin)
        logprob == weights * N * log(msr)
        rmsd    == weights * sqrt(msr)
        aic     == logprob + 2 * Q * One
        aicc    == logprob + 2 * Q * One + TrueDiv(2 * Q * (Q + 1), N - Q - 1)
        bic     == logprob + Q * log(N)
    IN  [rmsd |-> Append(functionals.rmsd, rmsd),
         aic  |-> Append(functionals.aic, aic),
         aicc |-> Append(functionals.aicc, aicc),
         bic  |-> Append(functionals.bic, bic)]

\* (mutation of Call: the solver's penalty left at its default)
CallPenalised(fn, N, par0) ==
    [fn |-> fn, N |-> N, par0 |-> par0, penalty |-> TRUE, uqanalysis |-> FALSE]

\* an external call as made at line 273 (penalty=False, uqanalysis=False)
\* and at lines 326-344
Call(fn, N, par0) ==
    [fn |-> fn, N |-> N, par0 |-> par0, penalty |-> FALSE, uqanalysis |-> FALSE]

(***************************************************************************)
(* One iteration of the loop of lines 249-297                              *)
(***************************************************************************)
\* (mutation of SolverRaises: the failure is caught and the loop goes on)
SolverRaisesSkipped ==
    /\ pc' = IF Nmodels = maxModels THEN "select" ELSE "fit"
    /\ Nmodels' = Nmodels + 1
    /\ UNCHANGED <<err, pnonlin_, plin_, nlin_lb_, nlin_ub_, lin_lb_, lin_ub_,
                   Pfit_, logest>>

\* the solver raises at line 273: nothing catches it
SolverRaises ==
    /\ pc' = "error" /\ err' = "snlls"
    /\ UNCHANGED <<loopVars>>

\* the solver returns out; lines 274-297
SolverReturns(out, nlin_lb, nlin_ub, lin_lb, lin_ub) ==
    LET pnonlin == out.pnonlin
        plin    == [i \in DOMAIN out.plin |-> out.plin[i] \div scale]
    IN  /\ pnonlin_' = Append(pnonlin_, pnonlin)
        /\ plin_' = Append(plin_, plin)
        /\ Pfit_' = Append(Pfit_, Pmodel(pnonlin, plin, nKparam, nparam, r))
        /\ IF AiccRaises(lenV, plin, pnonlin)
              THEN /\ pc' = "error" /\ err' = "ZeroDivisionError"
                   /\ UNCHANGED <<Nmodels, logest, nlin_lb_, nlin_ub_,
                                  lin_lb_, lin_ub_>>
              ELSE /\ logest' = logestimators(lenV, out.msr, plin, pnonlin, logest)
                   /\ nlin_ub_' = Append(nlin_ub_, nlin_ub)
                   /\ nlin_lb_' = Append(nlin_lb_, nlin_lb)
                   /\ lin_ub_' = Append(lin_ub_, lin_ub)
                   /\ lin_lb_' = Append(lin_lb_, lin_lb)
                   /\ Nmodels' = Nmodels + 1
                   /\ pc' = IF Nmodels = maxModels THEN "select" ELSE "fit"
                   /\ err' = err

FitCandidate ==
    /\ pc = "fit" /\ Nmodels <= maxModels
    /\ LET nlin_lb == NonlinBounds(lbK, lb0.v, Nmodels)
           nlin_ub == NonlinBounds(ubK, ub0.v, Nmodels)
           par0    == uniform(StartState(rng), nlin_lb, nlin_ub)
           lin_lb  == LinLower(Nmodels)
           lin_ub  == LinUpper(Nmodels)
       IN  /\ rng' = Advance(StartState(rng), Len(nlin_lb))
           /\ calls' = Append(calls, Call("snlls", Nmodels, par0))
           /\ \/ SolverRaises
              \/ \E out \in snlls(par0, nlin_lb, nlin_ub, lin_lb, lin_ub) :
                    SolverReturns(out, nlin_lb, nlin_ub, lin_lb, lin_ub)
    /\ UNCHANGED <<inputVars, boundVars, selVars, uqVars, stats, result, aliasVars>>

(***************************************************************************)
(* Selection and packaging, lines 299-319                                  *)
(***************************************************************************)
\* (mutation of argmin: the last occurrence of the minimum)
argminLast(s) ==
    (CHOOSE i \in DOMAIN s :
        /\ \A j \in DOMAIN s : s[i] <= s[j]
        /\ \A j \in (i + 1)..Len(s) : s[j] # s[i]) - 1

\* np.argmin: 0-based position of the first occurrence of the minimum
argmin(s) ==
    (CHOOSE i \in DOMAIN s :
        /\ \A j \in DOMAIN s : s[i] <= s[j]
        /\ \A j \in 1..(i - 1) : s[j] # s[i]) - 1

\* lines 316-319
PackParams(pnonlin, plin, nK, np) ==
    << Slice(pnonlin, 0, nK), Slice(pnonlin, nK, nK + np), plin >>

SelectModel ==
    /\ pc = "select"
    /\ \E m \in Methods :
          /\ method' = m
          /\ idx' = argmin(logest[m])
          /\ Pfit' = Pfit_[argmin(logest[m]) + 1]
          /\ fitparam' = PackParams(pnonlin_[argmin(logest[m]) + 1],
                                    plin_[argmin(logest[m]) + 1], nKparam, nparam)
    /\ pc' = "uq"
    /\ UNCHANGED <<err, rng, calls, rng0, Kmodel, lbK, ubK, info, lb, ub, r,
                   maxModels, lenV, uqanalysis, normP, boundVars, loopVars,
                   uqVars, stats, result, aliasVars>>

Nopt == idx + 1

(***************************************************************************)
(* Uncertainty quantification, lines 321-344                               *)
(***************************************************************************)
\* the external calls of the stage, in the order the code makes them
UqStages == <<"jacobianest", "hccm", "UncertQuant", "propagate">>

UqCalls(k) == [i \in 1..k |-> Call(UqStages[i], Nopt, <<>>)]

\* uqanalysis is false: lines 342-344
UqSkipped ==
    /\ uqanalysis' = FALSE
    /\ Puq' = [kind |-> "empty", N |-> 0, ciDiv |-> 0]
    /\ paramuq' = [kind |-> "empty", N |-> 0, ciDiv |-> 0]
    /\ pc' = "stats"
    /\ UNCHANGED <<err, calls, ci>>

\* the k-th external call of the stage raises: nothing catches it
UqRaises(k) ==
    /\ uqanalysis' = TRUE
    /\ calls' = calls \o UqCalls(k)
    /\ pc' = "error" /\ err' = UqStages[k]
    /\ UNCHANGED <<Puq, paramuq, ci>>

\* lines 325-341 run through
UqComputed ==
    /\ uqanalysis' = TRUE
    /\ calls' = calls \o UqCalls(Len(UqStages))
    /\ paramuq' = [kind |-> "UncertQuant", N |-> Nopt, ciDiv |-> 0]
    /\ Puq' = [kind |-> "propagated", N |-> Nopt, ciDiv |-> 0]
    /\ ci' = [ci EXCEPT !.Puq = CiMethod]
    /\ pc' = "stats"
    /\ UNCHANGED err

UncertaintyStage ==
    /\ pc = "uq"
    /\ \/ UqSkipped
       \/ \E k \in DOMAIN UqStages : UqRaises(k)
       \/ UqComputed
    /\ UNCHANGED <<rng, rng0, Kmodel, lbK, ubK, info, lb, ub, r, maxModels, lenV,
                   method, normP, boundVars, loopVars, selVars, stats, result, aliasVars>>

(***************************************************************************)
(* Goodness of fit, lines 346-352 (one signal: stats = stats[0])           *)
(***************************************************************************)
GoodnessOfFit ==
    /\ pc = "stats"
    /\ stats' = [Ndof |-> lenV - (nKparam + nparam + Nopt), computed |-> TRUE]
    /\ pc' = "norm"
    /\ UNCHANGED <<err, rng, calls, inputVars, boundVars, loopVars, selVars,
                   uqVars, result, aliasVars>>

(***************************************************************************)
(* Renormalization and return, lines 354-362                               *)
(***************************************************************************)
\* np.trapz(y,x)
RECURSIVE trapzFrom(_, _, _)
trapzFrom(i, y, x) ==
    IF i >= Len(x) THEN 0
    ELSE ((x[i + 1] - x[i]) * (y[i + 1] + y[i])) \div (2 * One)
         + trapzFrom(i + 1, y, x)
trapz(y, x) == trapzFrom(1, y, x)

\* (mutation of Renormalized: division by the sum of the values)
RenormalizedBySum(P, Pnorm) == [i \in DOMAIN P |-> (P[i] * One) \div SumSeq(P)]

\* (mutation of PevalAfterDivision: Pfit /= Pnorm, dividing in place)
PevalDividedInPlace(Peval, i, Pnorm) ==
    [Peval EXCEPT ![i] = [j \in DOMAIN Peval[i] |-> (Peval[i][j] * One) \div Pnorm]]

\* line 357 binds Pfit to a new array: entry i of the list Peval, the
\* array Pfit was bound to, stays as it is
PevalAfterDivision(Peval, i, Pnorm) == Peval

\* (mutation of CiWrapper: the function calls the ci of Puq itself)
CiWrapperSelf(Pnorm) == [kind |-> "lambda", target |-> "Puq", div |-> Pnorm]

\* line 360: lambda p: Puq_.ci(p)/Pnorm
CiWrapper(Pnorm) == [kind |-> "lambda", target |-> "Puq_", div |-> Pnorm]

\* Pfit/Pnorm
Renormalized(P, Pnorm) == [i \in DOMAIN P |-> (P[i] * One) \div Pnorm]

Normalize ==
    /\ pc = "norm"
    /\ \E n \in BOOLEAN :
          /\ normP' = n
          /\ IF n
                THEN /\ Pfit' = Renormalized(Pfit, trapz(Pfit, r))
                     /\ Pfit_' = PevalAfterDivision(Pfit_, idx + 1, trapz(Pfit, r))
                     /\ Puq' = IF uqanalysis
                                  THEN [Puq EXCEPT !.ciDiv = trapz(Pfit, r)]
                                  ELSE Puq
                     \* lines 359-360: Puq_ is a deep copy of Puq, then
                     \* the attribute ci of Puq is rebound
                     /\ ci' = IF uqanalysis
                                 THEN [Puq_ |-> ci.Puq,
                                       Puq  |-> CiWrapper(trapz(Pfit, r))]
                                 ELSE ci
                ELSE UNCHANGED <<Pfit, Pfit_, Puq, ci>>
    /\ result' = TRUE
    /\ pc' = "done"
    /\ UNCHANGED <<err, rng, calls, rng0, Kmodel, lbK, ubK, info, lb, ub, r,
                   maxModels, lenV, method, uqanalysis, boundVars, Nmodels,
                   pnonlin_, plin_, nlin_lb_, nlin_ub_, lin_lb_, lin_ub_,
                   logest, idx, fitparam, paramuq, stats, aliasVars>>

(***************************************************************************)
(* A query ci(p) on an uncertainty object, after the call                  *)
(***************************************************************************)
MaxDepth == 3       \* nested calls a query is followed through
Percentages == {50, 95}

\* UncertQuant.ci(p) as constructed, for an object whose mean is P: the
\* lower and upper bound of every coordinate
BaseCi(P, p) ==
    [i \in DOMAIN P |-> << (P[i] * (2 * scale - p)) \div (2 * scale),
                           (P[i] * (2 * scale + p)) \div (2 * scale) >>]

\* x/Pnorm for the array x that ci returns
CiDivided(x, Pnorm) ==
    [i \in DOMAIN x |-> << (x[i][1] * One) \div Pnorm, (x[i][2] * One) \div Pnorm >>]

\* obj.ci(p): follows the bindings; methods counts the evaluations of the
\* method of UncertQuant, wraps those of the function of line 360
RECURSIVE CiEval(_, _, _, _)
CiEval(obj, P, p, fuel) ==
    IF fuel = 0 \/ ci[obj].kind = "none"
       THEN [ok |-> FALSE, value |-> <<>>, methods |-> 0, wraps |-> 0]
    ELSE IF ci[obj].kind = "method"
       THEN [ok |-> TRUE, value |-> BaseCi(P, p), methods |-> 1, wraps |-> 0]
    ELSE LET inner == CiEval(ci[obj].target, P, p, fuel - 1)
         IN  [ok      |-> inner.ok,
              value   |-> IF inner.ok THEN CiDivided(inner.value, ci[obj].div)
                                      ELSE <<>>,
              methods |-> inner.methods,
              wraps   |-> inner.wraps + 1]

(***************************************************************************)
(* The call                                                                *)
(***************************************************************************)
Next ==
    \/ StartProbe
    \/ ProbeKernel
    \/ FixedKernel
    \/ ParseBoundaries
    \/ ResolveBounds
    \/ PreAllocate
    \/ FitCandidate
    \/ SelectModel
    \/ UncertaintyStage
    \/ GoodnessOfFit
    \/ Normalize

Spec == Init /\ [][Next]_vars

(***************************************************************************)
(* Properties                                                              *)
(***************************************************************************)
Selected == method # ""
SnllsCalls == {i \in DOMAIN calls : calls[i].fn = "snlls"}
\* Q of candidate k (lines 224-225) from its stored parameter vectors
CandidateQ(k) == NumQ(plin_[k], pnonlin_[k])

\* C1: once a criterion has been chosen, the selected index is a position of
\* the minimum of that criterion's sequence (of length maxModels), no
\* candidate with fewer components has the same value, and the selected
\* candidate has idx + 1 components.
C1_SelectsFirstMinimum ==
    Selected =>
        LET s == logest[method]
        IN  /\ Len(s) = maxModels
            /\ idx + 1 \in DOMAIN s
            /\ \A j \in DOMAIN s : s[idx + 1] <= s[j]
            /\ \A j \in 1..idx : s[j] > s[idx + 1]
            /\ Len(plin_[idx + 1]) = idx + 1
            /\ fitparam[3] = plin_[idx + 1]

\* C1 witness: a selection made among candidates that tie at the minimum
C1_TieWitness ==
    /\ Selected
    /\ \E j \in DOMAIN logest[method] :
          j > idx + 1 /\ logest[method][j] = logest[method][idx + 1]

\* C2: every stored amplitude vector plin_[N] has length N and entries >= 1
C2_AmplitudesAtLeastOne ==
    \A k \in DOMAIN plin_ :
        /\ Len(plin_[k]) = k
        /\ \A i \in DOMAIN plin_[k] : plin_[k][i] >= One

C4_PackedPartition ==
    result =>
        /\ fitparam[1] \o fitparam[2] \o fitparam[3]
              = pnonlin_[idx + 1] \o plin_[idx + 1]
        /\ Len(fitparam[1]) = nKparam
        /\ Len(fitparam[2]) = nparam * Nopt
        /\ Len(fitparam[3]) = Nopt

ProbeCap == 20

\* C6: probing never goes beyond the cap: no parameter vector longer than
\* ProbeCap is probed.
C6_ProbeStopsAtCap == nKparam <= ProbeCap

\* C7: after the bounds are resolved, a parameter named Center or Location
\* has lower bound min(r) and upper bound max(r); every other parameter has
\* the user's bound if the user gave bounds and the model default otherwise.
C7_ResolvedBounds ==
    (pc \notin {"start", "probe", "parse", "info"} /\ info # NoInfo) =>
        \A i \in 1..nparam :
            IF info.Parameters[i] \in {"Center", "Location"}
               THEN lb0.v[i] = min(r) /\ ub0.v[i] = max(r)
               ELSE /\ lb0.v[i] = IF Len(lb.v) = 0 THEN info.Lower.v[i]
                                                  ELSE lb.v[i]
                    /\ ub0.v[i] = IF Len(ub.v) = 0 THEN info.Upper.v[i]
                                                  ELSE ub.v[i]

\* C8: a candidate with N - Q - 1 <= 0 is never the one returned when the
\* criterion is 'aicc' (its AICc is a DegenerateModel condition, not a number
\* that can win the comparison).
C8_DegenerateNeverSelected ==
    (result /\ method = "aicc") => lenV - CandidateQ(idx + 1) - 1 > 0

\* C9: if a solver call produced no candidate record, the call has ended in
\* the solver's exception: that call was the last one, nothing was selected
\* and nothing is returned.
C9_SolverFailurePropagates ==
    /\ Cardinality(SnllsCalls) > Len(pnonlin_) =>
          /\ pc = "error" /\ err = "snlls"
          /\ Cardinality(SnllsCalls) = Len(pnonlin_) + 1
          /\ calls[Len(calls)].fn = "snlls" /\ calls[Len(calls)].N = Nmodels
          /\ ~Selected /\ ~result
    /\ err = "snlls" => Cardinality(SnllsCalls) > Len(pnonlin_)
    /\ Selected => Len(pnonlin_) = maxModels

\* C9 witness: the solver raised for N = 1 with a second candidate pending
C9_FirstCandidateFailsWitness ==
    /\ pc = "error" /\ err = "snlls"
    /\ Nmodels = 1 /\ maxModels = 2 /\ pnonlin_ = <<>>

\* C10: a failure of the uncertainty stage does not end the call in an
\* error.
C10_UqFailureDegrades ==
    ~(pc = "error" /\ err \in Range(UqStages))

\* C11: the start vector of every solver call is the vector drawn right
\* after seeding with the fixed seed: a function of the resolved bounds and
\* of N, whatever the generator state at entry and the draws of the probing.
C11_StartVectorDeterministic ==
    \A i \in SnllsCalls :
        calls[i].par0 = uniform(Seeded(seed),
                                lbK \o repmat(lb0.v, calls[i].N),
                                ubK \o repmat(ub0.v, calls[i].N))

\* C11 witness: a second candidate fitted after a probing that consumed
\* draws, in a call entered with the generator not in the seeded state
C11_ProbedThenFittedWitness ==
    /\ Kmodel.callable /\ nKparam = 2
    /\ rng0 # Seeded(seed)
    /\ \E i \in SnllsCalls : calls[i].N = 2

\* C12: when the call returns, the generator is in the state it was in at
\* entry, so an unseeded whitegaussnoise draws what it would have drawn
\* without the call.
C12_GeneratorRestored ==
    result =>
        /\ rng = rng0
        /\ whitegaussnoise(rng, 2, -1) = whitegaussnoise(rng0, 2, -1)

\* C13: every entry of the list of candidate distributions is the
\* distribution produced in its iteration from that candidate's parameters,
\* at every moment; a returned result holds maxModels entries of it and
\* maxModels values of the criterion, entry N belonging to candidate N.
C13_CandidatesRetained ==
    /\ \A k \in DOMAIN Pfit_ :
          Pfit_[k] = Pmodel(pnonlin_[k], plin_[k], nKparam, nparam, r)
    /\ result =>
          /\ Len(Pfit_) = maxModels
          /\ Len(logest[method]) = maxModels
          /\ \A k \in 1..maxModels :
                logest.aic[k] - 2 * CandidateQ(k) * One
                   = logest.bic[k] - CandidateQ(k) * log(lenV)

\* C13 witness: a normalized result returned for the first of two candidates
C13_NormalizedFirstWitness ==
    /\ result /\ normP /\ maxModels = 2 /\ idx = 0
    /\ Pfit # Pfit_[1]

\* C14: a result returned without normalization is the selected candidate's
\* distribution; a result returned with normalization, times the trapezoidal
\* integral of that distribution, is that distribution up to the last digit
\* of the quotient.
C14_RenormalizationRoundTrip ==
    result =>
        LET raw   == Pfit_[idx + 1]
            Pnorm == trapz(raw, r)
        IN  IF normP
               THEN \A i \in DOMAIN raw :
                       /\ Len(Pfit) = Len(raw)
                       /\ raw[i] * One - Pfit[i] * Pnorm >= 0
                       /\ raw[i] * One - Pfit[i] * Pnorm < Pnorm
               ELSE Pfit = raw

\* C14 witness: a normalized result for the second candidate
C14_NormalizedSecondWitness ==
    /\ result /\ normP /\ idx = 1
    /\ Pfit # Pfit_[2]

\* C15: the external calls made so far are the solver calls for N = 1, 2, ...
\* in this order, each with penalty and uncertainty analysis off, followed by
\* at most one call each of jacobianest, hccm, UncertQuant and propagate in
\* this order, made for Nopt after the last solver call and the selection;
\* a result returned without uncertainty analysis made none of the latter
\* and holds two empty uncertainty outputs.
C15_CallOrder ==
    LET n == Cardinality(SnllsCalls)
    IN  /\ \A i \in 1..n :
              /\ calls[i].fn = "snlls" /\ calls[i].N = i
              /\ ~calls[i].penalty /\ ~calls[i].uqanalysis
        /\ Len(calls) <= n + Len(UqStages)
        /\ \A i \in (n + 1)..Len(calls) :
              /\ calls[i].fn = UqStages[i - n]
              /\ Selected /\ n = maxModels
              /\ calls[i].N = Nopt
        /\ result =>
              /\ n = maxModels
              /\ IF uqanalysis
                    THEN Len(calls) = n + Len(UqStages)
                    ELSE /\ Len(calls) = n
                         /\ Puq.kind = "empty" /\ paramuq.kind = "empty"

\* C15 witness: a result with uncertainty analysis after two candidates
C15_TwoFitsThenUqWitness ==
    /\ result /\ uqanalysis /\ maxModels = 2 /\ Len(calls) = 6

\* C16: on a result with uncertainty analysis, a query ci(p) on Puq ends;
\* with normalization it evaluates the snapshot's own ci once, through one
\* call of the rewrapped function, and returns it divided by the integral
\* the distribution was divided by; without normalization ci is the method
\* the object was constructed with.
C16_CiRewrapped ==
    (result /\ uqanalysis) =>
        \A p \in Percentages :
            LET raw == Pfit_[idx + 1]
                q   == CiEval("Puq", raw, p, MaxDepth)
            IN  IF normP
                   THEN /\ q.ok /\ q.methods = 1 /\ q.wraps = 1
                        /\ q.value = CiDivided(BaseCi(raw, p), trapz(raw, r))
                        /\ ci.Puq_ = CiMethod
                   ELSE /\ ci.Puq = CiMethod
                        /\ q.ok /\ q.value = BaseCi(raw, p)

\* C16 witness: a normalized result with uncertainty analysis
C16_RewrappedWitness ==
    /\ result /\ uqanalysis /\ normP
    /\ ci.Puq.kind = "lambda" /\ ci.Puq.div = trapz(Pfit_[idx + 1], r)

\* C17: after the bounds are resolved, the objects the caller passed as lb
\* and ub, and the Lower and Upper arrays of the metadata the basis model
\* returned, hold the values they held when the call received them.
C17_InputsNotModified ==
    (pc \notin {"start", "probe", "parse", "info"} /\ info # NoInfo) =>
        /\ lbObj.v = lb.v
        /\ ubObj.v = ub.v
        /\ metaObj.Lower = info.Lower
        /\ metaObj.Upper = info.Upper

=============================================================================
